---- MODULE Spec2Model ----
(***************************************************************************)
(* Model of the processing service of glimmer-grabber: the Celery task     *)
(* process_image_task (processing_service/tasks.py), the storage download  *)
(* and the dedup lookup (processing_service/utils/file_utils.py), the      *)
(* image pipeline (processing_service/core/image_processing.py), the       *)
(* metadata lookup (processing_service/core/data_extraction.py) and the    *)
(* tables of shared/shared/models/models.py.                               *)
(*                                                                         *)
(* The database is modelled by its committed contents: the status column   *)
(* of processing_jobs, the rows of cards, the rows of processed_images.    *)
(* Each job has at most one task execution in progress; executions of      *)
(* different jobs interleave at the granularity of their database          *)
(* round trips.                                                            *)
(***************************************************************************)
EXTENDS Integers, Sequences, FiniteSets, TLC

\* ------------------------------------------------------------------ bounds
\* Re-deliveries of an already handled message by the broker
\* (at-least-once delivery), over all jobs.
MaxRedeliveries == 1

\* Requests the job service handles in a run.
MaxApiCalls == 1

\* The clock runs from 0 to MaxTime.
MaxTime == 3

\* self.cache_duration (config value, 3600 by default), in clock ticks.
cache_duration == 2

\* fetch_card_data calls in a run, over all callers.
MaxCalls == 3

\* Detections the detector gives for one image.
MaxDetections == 2

\* Steps in config["steps"].
MaxSteps == 3

\* --------------------------------------------------------------- constants
\* @celery_app.task(..., max_retries=3, ...)
max_retries == 3

\* Ids of the processing_jobs rows the task is invoked for.
Jobs == {1, 2}

\* Contents of the objects held by the storage; "empty" is b"".
StoredImages == {"imgA", "imgB", "corrupt"}

ImageBytes == StoredImages \cup {"empty"}

Statuses == {"PENDING", "RUNNING", "COMPLETED", "FAILED"}

\* (variant: a digest on which b"" collides with an image)
Sha256_collides(b) ==
    CASE b = "empty"   -> "9f2a11c0"
      [] b = "imgA"    -> "9f2a11c0"
      [] b = "imgB"    -> "47d0be5e"
      [] b = "corrupt" -> "c01dface"

\* hashlib.sha256(image_bytes).hexdigest(): a digest per byte string,
\* distinct byte strings having distinct digests.
Sha256(b) ==
    CASE b = "empty"   -> "e3b0c442"
      [] b = "imgA"    -> "9f2a11c0"
      [] b = "imgB"    -> "47d0be5e"
      [] b = "corrupt" -> "c01dface"

\* ------------------------------------------------------ image_processing.py
\* preprocess_image: Image.open raises on bytes that are no image (b"" and
\* corrupt uploads); the other steps succeed on a decodable image.
CanDecode(b) == b \in {"imgA", "imgB"}

\* process_image: the OCR text of every card region found, in contour order.
OcrTexts(b) ==
    CASE b = "imgA" -> << " elsa\n", "  \n" >>
      [] b = "imgB" -> << "mickey" >>
      [] OTHER      -> << >>

\* ------------------------------------------------------- data_extraction.py
\* str.strip() on the OCR texts of the model.
Strip(t) ==
    CASE t = " elsa\n" -> "elsa"
      [] t = "  \n"    -> ""
      [] OTHER         -> t

\* What one GET {LORCANA_API_URL}/cards/{name} can do:
\*   "ok"       200 with a non-empty JSON object
\*   "nothing"  200 with an empty JSON object
\*   "reqerr"   connection error, timeout or HTTP error status
\*              (a requests.exceptions.RequestException)
\*   "badjson"  200 with a body response.json() cannot decode, raised as an
\*              exception that is not a RequestException
LookupOutcomes == {"ok", "nothing", "reqerr", "badjson"}

\* get_card_details: the dict returned; {} is modelled by "".
\* RequestException is swallowed and {} returned.
get_card_details(name, outcome) ==
    IF outcome = "ok" THEN name ELSE ""

\* extract_data over texts[i..], with the outcome of each lookup given:
\* a text that strips to "" performs no lookup, a falsy details dict is
\* not appended.
RECURSIVE ExtractFrom(_, _, _)
ExtractFrom(texts, outcomes, i) ==
    IF i > Len(texts) THEN << >>
    ELSE LET card_name == Strip(texts[i])
             details   == IF card_name # ""
                          THEN get_card_details(card_name, outcomes[i])
                          ELSE ""
             rest      == ExtractFrom(texts, outcomes, i + 1)
         IN IF card_name # "" /\ details # "" THEN << details >> \o rest ELSE rest

extract_data(texts, outcomes) == ExtractFrom(texts, outcomes, 1)

\* The lookups extract_data performs: the indices whose text is not blank.
Lookups(texts) == { i \in 1..Len(texts) : Strip(texts[i]) # "" }

\* extract_data raises when a lookup it performs raises (response.json()).
ExtractRaises(texts, outcomes) ==
    \E i \in Lookups(texts) : outcomes[i] = "badjson"

\* -------------------------------------------------------------- file_utils.py
\* (variant: the lookup compares the rows with the raw bytes, not the digest)
is_image_processed_raw(image_bytes, rows) ==
    \E k \in 1..Len(rows) : rows[k] = image_bytes

\* is_image_processed: a processed_images row with the digest exists.
is_image_processed(image_bytes, rows) ==
    \E k \in 1..Len(rows) : rows[k] = Sha256(image_bytes)

\* ------------------------------------------------------------------- models.py
\* (variant: hash declared without unique=True)
UniqueViolation_none(rows, h) == FALSE

\* processed_images.hash is unique=True: the INSERT of a digest that a
\* committed row already carries fails with IntegrityError.
UniqueViolation(rows, h) == \E k \in 1..Len(rows) : rows[k] = h

\* (variant: the ProcessedImage row is never added to the session)
InsertProcessedImage_skipped(rows, h) == rows

\* The processed_images table after the INSERT of ProcessedImage(hash=h).
InsertProcessedImage(rows, h) == Append(rows, h)

VARIABLES
    status,         \* processing_jobs.status, committed; "NONE": no such row
    cards,          \* cards rows per job_id (content), committed
    ledger,         \* processed_images rows (hash), in insertion order
    storage,        \* the object stored under the job's image_key
    pc,             \* where the job's task is
    retries,        \* self.request.retries of the message being handled
    deliveries,     \* messages the broker has delivered for the job
    redelivered,    \* re-deliveries so far, over all jobs
    image_bytes,    \* local of the execution, "unset" before the download
    card_details,   \* local of the execution
    error_message,  \* job.error_message of the execution's job object
    outcome,        \* how the last execution ended, "none" while one runs
    hist            \* observations about the executions (history)

\* The job service (src/job_service/app.py), which shares the table
\* processing_jobs with the task.
VARIABLES
    api_calls,       \* requests the job service has handled
    published,       \* job ids create_job has published to the queue
    create_response  \* status code of the create_job call that was given
                     \* the id, "none" when there was no such call

\* CardDataFetcher (src/src/app/card_data_fetcher.py): its cache file, the
\* clock, and the fetch_card_data calls of the callers sharing the file.
VARIABLES
    now,                 \* time.time()
    cache_file,          \* the file at self.cache_file: exists, mtime, chunks
    fpc,                 \* where each caller's fetch_card_data call is
    card_names,          \* argument of the call
    gets,                \* requests.get calls the call has made
    validated_api_data,  \* local of the call, "unset" before the response
    result,              \* what the last call returned or raised
    calls,               \* fetch_card_data calls begun so far
    fh,                  \* observations about each caller's call (history)
    refreshed,           \* the last successful refresh, while the file is
                         \* as it left it (history)
    last                 \* the call that finished last (history)

\* CardSegmenter.segment_cards, run_inference and process_images
\* (src/src/core), called for one image.
VARIABLES
    results,               \* what self.model.predict gives for the image
    confidence_threshold,  \* get_segmentation_confidence_threshold()
    segmentations,         \* how the segment_cards call ended
    filtered_results,      \* how the run_inference call ended
    processed_data_list    \* how the process_images call ended

\* ImagePreprocessor.preprocess (src/src/core/image_preprocessor.py).
VARIABLES
    image,            \* the caller's array
    steps_to_apply,   \* self.config["steps"], in declaration order
    processed_image,  \* local of preprocess, "unset" outside a call
    step_index,       \* position of the loop over steps_to_apply
    returned,         \* what the last preprocess call returned
    plog              \* calls of step functions and warnings (history)

\* The calls to remote services: requests.get and get_object.
VARIABLES
    netpc             \* where each kind of remote call is

taskvars == << status, cards, ledger, storage, pc, retries, deliveries, redelivered,
               image_bytes, card_details, error_message, outcome, hist >>

apivars == << api_calls, published, create_response >>

fetchvars == << now, cache_file, fpc, card_names, gets, validated_api_data,
                result, calls, fh, refreshed, last >>

segvars == << results, confidence_threshold, segmentations, filtered_results,
              processed_data_list >>

prevars == << image, steps_to_apply, processed_image, step_index, returned, plog >>

netvars == << netpc >>

corevars == << segvars, prevars, netvars >>

vars == << taskvars, apivars, fetchvars, corevars >>

\* ------------------------------------------------- CardDataFetcher: data

\* The callers that share one cache file.
Callers == {1, 2}

\* Entries of the card database as JSON objects, and a JSON number (an item
\* that is no object): a record stands for a dict, DOMAIN for its keys.
Elsa == [name |-> "elsa", type |-> "character", set |-> "1"]

Mickey == [name |-> "mickey", type |-> "character", set |-> "2"]

Stitch == [name |-> "stitch", type |-> "character", set |-> "3"]

OlafNoType == [name |-> "olaf", set |-> "1"]

NoName == [type |-> "item", set |-> "2"]

Number42 == [number |-> "42"]

Items == {Elsa, Mickey, Stitch, OlafNoType, NoName, Number42}

\* isinstance(item, dict)
IsDict(item) == "number" \notin DOMAIN item

\* json.dump of one item: its text in the file.
ItemText(item) ==
    CASE item = Elsa       -> "{name: elsa, type: character, set: 1}"
      [] item = Mickey     -> "{name: mickey, type: character, set: 2}"
      [] item = Stitch     -> "{name: stitch, type: character, set: 3}"
      [] item = OlafNoType -> "{name: olaf, set: 1}"
      [] item = NoName     -> "{type: item, set: 2}"
      [] OTHER             -> "42"

\* json.dump(card_data, f): the chunks written, in order.
json_dump(card_data) ==
    << "[" >> \o [i \in 1..Len(card_data) |-> ItemText(card_data[i])] \o << "]" >>

\* What a JSON decoder makes of a document: "list", "object", or "invalid"
\* (JSONDecodeError), an empty or a truncated document included.
JsonKind(chunks) ==
    IF chunks = << "{}" >> THEN "object"
    ELSE IF /\ Len(chunks) >= 2
            /\ chunks[1] = "["
            /\ chunks[Len(chunks)] = "]"
            /\ \A i \in 2..(Len(chunks) - 1) : \E item \in Items : ItemText(item) = chunks[i]
         THEN "list"
         ELSE "invalid"

\* json.load losing the last item of the list.
json_load_short(chunks) ==
    [i \in 1..(Len(chunks) - 3) |-> CHOOSE item \in Items : ItemText(item) = chunks[i + 1]]

\* json.load of a document that is a list.
json_load(chunks) ==
    [i \in 1..(Len(chunks) - 2) |-> CHOOSE item \in Items : ItemText(item) = chunks[i + 1]]

\* card_data_fetcher.py 200-219 with type not required.
validate_card_data_entry_no_type(card) ==
    \A field \in {"name", "set"} : field \in DOMAIN card

\* card_data_fetcher.py 200-219.
validate_card_data_entry(card) ==
    \A field \in {"name", "type", "set"} : field \in DOMAIN card

\* card.get("name") in card_names
NameIn(card, names) ==
    /\ "name" \in DOMAIN card
    /\ \E i \in 1..Len(names) : names[i] = card.name

\* Lines 258-265 and 303-309 with the entries taken in the order of
\* card_names instead of the order of the data.
RECURSIVE FilterByNames_in_names_order(_, _)
FilterByNames_in_names_order(data, names) ==
    IF names = << >> THEN data
    ELSE IF Len(names) = 1
         THEN SelectSeq(data, LAMBDA card : NameIn(card, names))
         ELSE SelectSeq(data, LAMBDA card : NameIn(card, << Head(names) >>))
              \o FilterByNames_in_names_order(data, Tail(names))

\* Lines 258-265 and 303-309: all entries for an empty card_names, else the
\* entries whose name is in card_names, in the order of the data.
FilterByNames(data, names) ==
    IF names = << >> THEN data
    ELSE SelectSeq(data, LAMBDA card : NameIn(card, names))

\* Lines 74-103 with <= for <.
is_cache_valid_le(file, t) ==
    /\ file.exists
    /\ (t - file.mtime) <= cache_duration

\* _is_cache_valid, lines 74-103.
is_cache_valid(file, t) ==
    /\ file.exists
    /\ (t - file.mtime) < cache_duration

\* _load_from_cache, lines 105-135: the list, or the error raised. A path
\* that cannot be opened and a document that does not decode give
\* CacheError; so does a document that is no list, whose DataFormatError
\* (line 124) is raised inside the try and caught by line 133.
load_from_cache(file) ==
    IF ~file.exists \/ ~file.openable \/ JsonKind(file.chunks) # "list"
    THEN [raises |-> "CacheError", data |-> << >>]
    ELSE [raises |-> "none", data |-> json_load(file.chunks)]

\* Lines 244-265: load, require dicts, validate and filter.
CachePath(file, names) ==
    LET loaded == load_from_cache(file)
    IN IF loaded.raises # "none" THEN loaded
       ELSE IF \E i \in 1..Len(loaded.data) : ~IsDict(loaded.data[i])
            THEN [raises |-> "DataFormatError", data |-> << >>]
            ELSE [raises |-> "none",
                  data |-> FilterByNames(
                             SelectSeq(loaded.data, validate_card_data_entry), names)]

\* Lines 266-269 re-raising the error of the load.
AfterLoadFailure_raise(e) == "raise"

\* Lines 266-269: CacheError and DataFormatError of the load are logged and
\* the call goes on to the API.
AfterLoadFailure(e) == "api"

\* Lines 286-296: non-dict items and invalid entries are skipped.
ValidateApiData(api_data_raw) ==
    SelectSeq(api_data_raw, LAMBDA item : IsDict(item) /\ validate_card_data_entry(item))

\* Responses of GET api_url: the server is not reached, an error status, or
\* 200 with a body (no JSON, a JSON object, lists).
Responses ==
    { [http |-> "unreachable", body |-> << >>],
      [http |-> "500", body |-> << >>],
      [http |-> "200", body |-> << "<html>" >>],
      [http |-> "200", body |-> << "{}" >>],
      [http |-> "200", body |-> json_dump(<< Elsa, OlafNoType, Stitch, Mickey >>)],
      [http |-> "200", body |-> json_dump(<< Mickey, Number42, NoName >>)] }

\* What response.json() raises for a body that is no JSON, by the build:
\* requests.exceptions.JSONDecodeError (requests >= 2.27, a RequestException
\* and a json.JSONDecodeError), json.JSONDecodeError (older requests), or
\* simplejson's error (older requests with simplejson installed).
JsonErrors == {"requests.JSONDecodeError", "json.JSONDecodeError", "simplejson.JSONDecodeError"}

\* Lines 273-316 up to the save: what the GET and the checks of the
\* response raise, the except clauses taken in their order (311 before 314;
\* an error neither clause names is wrapped by fetch_card_data, line 195).
ApiPath(resp, jsonError) ==
    IF resp.http # "200" THEN "APIFetchError"
    ELSE IF JsonKind(resp.body) = "invalid"
         THEN IF jsonError = "json.JSONDecodeError" THEN "DataFormatError"
              ELSE "APIFetchError"
         ELSE IF JsonKind(resp.body) # "list" THEN "DataFormatError"
              ELSE "none"

\* Lines 154-159 with the error of the save raised as APIFetchError.
SaveRaises_as_fetch_error(e) == "APIFetchError"

\* Lines 154-159 with the error of the save swallowed.
SaveRaises_swallowed(e) == "none"

\* Lines 154-159: every error of makedirs, open and json.dump is raised as
\* CacheError.
SaveRaises(e) == "CacheError"

\* The file after writing chunks from its start through a handle opened
\* before: what lay beyond them stays.
Overlay(written, chunks) ==
    IF Len(chunks) > Len(written)
    THEN written \o SubSeq(chunks, Len(written) + 1, Len(chunks))
    ELSE written

NoFile == [exists |-> FALSE, openable |-> TRUE, mtime |-> 0, chunks |-> << >>]

\* The cache file when the fetcher starts: none, a file of an earlier run
\* (with an entry that is invalid, with an item that is no dict, with a JSON
\* object, cut short), or a path that cannot be opened.
CacheFiles ==
    { NoFile,
      [exists |-> TRUE, openable |-> TRUE, mtime |-> 0, chunks |-> json_dump(<< Elsa >>)],
      [exists |-> TRUE, openable |-> TRUE, mtime |-> 0, chunks |-> json_dump(<< Elsa, OlafNoType >>)],
      [exists |-> TRUE, openable |-> TRUE, mtime |-> 0, chunks |-> json_dump(<< Number42, Elsa >>)],
      [exists |-> TRUE, openable |-> TRUE, mtime |-> 0, chunks |-> << "{}" >>],
      [exists |-> TRUE, openable |-> TRUE, mtime |-> 0, chunks |-> << "[", ItemText(Elsa) >>],
      [exists |-> TRUE, openable |-> FALSE, mtime |-> 0, chunks |-> << >>] }

\* Arguments of fetch_card_data.
CardNames == { << >>, << "mickey", "elsa" >> }

NoResult == [raised |-> "nocall", data |-> << >>]

NoResponse == [http |-> "none", body |-> << >>]

NoLast == [names |-> << >>, raised |-> "nocall", data |-> << >>, good |-> FALSE]

\* History of a caller's current (or last) call.
NoFetchHist ==
    [ sawExists  |-> FALSE,      \* the file existed at the validity check
      sawAge     |-> 0,          \* now - mtime at the validity check
      tookCache  |-> FALSE,      \* the validity check said valid
      loadError  |-> "none",     \* what loading the cache raised
      response   |-> NoResponse, \* the response of the GET
      apiOk      |-> FALSE,      \* the GET gave a list
      wrote      |-> FALSE,      \* json.dump was given a list
      written    |-> << >>,      \* that list
      fileAfter  |-> << >>,      \* the file when json.dump had returned
      saveFailed |-> FALSE,      \* makedirs, open or json.dump raised
      readDuring |-> FALSE,      \* the load ran while another call had the
                                 \* file open for writing
      readChunks |-> << >>,      \* what the load read
      oldChunks  |-> << >>,      \* complete contents around that refresh
      newChunks  |-> << >>,
      fileBefore |-> NoFile,     \* the file when the call began
      fresh      |-> FALSE,      \* began within cache_duration of a refresh
                                 \* with the file as the refresh left it
      prev       |-> NoLast ]    \* the call that had finished last

\* No request yet; the rows there are were created by calls that published
\* their ids.
ApiIdle ==
    /\ api_calls = 0
    /\ published = {j \in Jobs : status[j] # "NONE"}
    /\ create_response = [j \in Jobs |-> "none"]

\* No predict call, no segment_cards, run_inference or process_images call.
NoDetections == [kind |-> "nopredict", dets |-> << >>]

NoOutcome == [raised |-> "nocall", detail |-> "", names_image |-> FALSE, value |-> << >>]

SegIdle ==
    /\ results = NoDetections
    /\ confidence_threshold = 0
    /\ segmentations = NoOutcome
    /\ filtered_results = NoOutcome
    /\ processed_data_list = NoOutcome

\* No preprocess call.
NoImage == [ndim |-> 0, ops |-> << >>]

PreIdle ==
    /\ image = NoImage
    /\ steps_to_apply = << >>
    /\ processed_image = NoImage
    /\ step_index = 0
    /\ returned = NoImage
    /\ plog = << >>

\* The places where the code calls a remote service.
Sites == {"fetcher_get", "lorcana_get", "download_image", "s3_get_object"}

NetIdle == netpc = [s \in Sites |-> "idle"]

CoreIdle == SegIdle /\ PreIdle /\ NetIdle

FetchIdle ==
    /\ now = 0
    /\ cache_file = NoFile
    /\ fpc = [c \in Callers |-> "idle"]
    /\ card_names = [c \in Callers |-> << >>]
    /\ gets = [c \in Callers |-> 0]
    /\ validated_api_data = [c \in Callers |-> << >>]
    /\ result = [c \in Callers |-> NoResult]
    /\ calls = 0
    /\ fh = [c \in Callers |-> NoFetchHist]
    /\ refreshed = [valid |-> FALSE, at |-> 0, data |-> << >>]
    /\ last = NoLast

\* str(card_data) of a details dict, the content column of a Card row.
CardContent(details) ==
    CASE details = "elsa"   -> "{'name': 'elsa'}"
      [] details = "mickey" -> "{'name': 'mickey'}"
      [] OTHER              -> "{}"

RECURSIVE CardRows(_, _)
CardRows(details, i) ==
    IF i > Len(details) THEN << >>
    ELSE << CardContent(details[i]) >> \o CardRows(details, i + 1)

\* History of the current (or last) execution of a job's task, and of the
\* job's executions so far.
NoHist ==
    [ hit          |-> FALSE,    \* the digest was in the ledger at the lookup
      ranProcess   |-> FALSE,    \* process_image was invoked
      ranExtract   |-> FALSE,    \* extract_data was invoked
      addedCards   |-> 0,        \* Card rows this execution committed
      addedLedger  |-> FALSE,    \* this execution committed a ledger row
      lookupFailed |-> FALSE,    \* a metadata GET failed in this execution
      allDlFailed  |-> TRUE,     \* get_object failed in every execution of the message
      executions   |-> 0,        \* executions of the task for this message
      seenDone     |-> {},       \* jobs fully processed before this began
      prevDone     |-> "none",   \* bytes of the run that had COMPLETED the job
                                 \* when this message was delivered
      prevCards    |-> << >>,    \* the job's Card rows at that delivery
      fullBytes    |-> "none" ]  \* bytes this job ran the full pipeline on

TypeOK ==
    /\ status \in [Jobs -> Statuses \cup {"NONE"}]
    /\ \A j \in Jobs : cards[j] \in Seq({"{'name': 'elsa'}", "{'name': 'mickey'}", "{}"})
    /\ ledger \in Seq({Sha256(b) : b \in ImageBytes})
    /\ storage \in [Jobs -> StoredImages]
    /\ pc \in [Jobs -> {"idle", "queued", "dedup", "process", "commit"}]
    /\ retries \in [Jobs -> 0..max_retries]
    /\ deliveries \in [Jobs -> 0..(1 + MaxRedeliveries)]
    /\ redelivered \in 0..MaxRedeliveries
    /\ image_bytes \in [Jobs -> ImageBytes \cup {"unset"}]
    /\ error_message \in [Jobs -> {"", "Error processing image", "Error extracting data", "IntegrityError"}]
    /\ \A j \in Jobs : hist[j].executions \in 0..(max_retries + 1)
    /\ outcome \in [Jobs -> {"none", "returned", "ImageProcessingError",
                             "DataExtractionError", "PendingRollbackError", "Uncategorized"}]

\* The API layer has created the rows (status PENDING) and the uploads are
\* in the storage; a message may also name a job id that has no row.
TaskInit ==
    /\ status \in [Jobs -> {"PENDING", "NONE"}]
    /\ storage \in [Jobs -> StoredImages]
    /\ \A j \in Jobs : status[j] = "NONE" => storage[j] = "imgA"
    /\ cards = [j \in Jobs |-> << >>]
    /\ ledger = << >>
    /\ pc = [j \in Jobs |-> "idle"]
    /\ retries = [j \in Jobs |-> 0]
    /\ deliveries = [j \in Jobs |-> 0]
    /\ redelivered = 0
    /\ image_bytes = [j \in Jobs |-> "unset"]
    /\ card_details = [j \in Jobs |-> << >>]
    /\ error_message = [j \in Jobs |-> ""]
    /\ outcome = [j \in Jobs |-> "none"]
    /\ hist = [j \in Jobs |-> NoHist]

\* Before any request to the job service and any fetch_card_data call.
Init ==
    /\ TaskInit
    /\ ApiIdle
    /\ FetchIdle
    /\ CoreIdle

\* The broker hands a worker the message process_image_task(jobId,
\* image_key) of a job: the first delivery, or a re-delivery of the message
\* once its handling has ended.
Deliver(j) ==
    /\ pc[j] = "idle"
    /\ IF deliveries[j] = 0
       THEN UNCHANGED redelivered
       ELSE /\ redelivered < MaxRedeliveries
            /\ redelivered' = redelivered + 1
    /\ deliveries' = [deliveries EXCEPT ![j] = @ + 1]
    /\ retries' = [retries EXCEPT ![j] = 0]
    /\ pc' = [pc EXCEPT ![j] = "queued"]
    /\ hist' = [hist EXCEPT ![j].allDlFailed = TRUE, ![j].executions = 0,
                            ![j].prevDone = IF status[j] = "COMPLETED"
                                            THEN image_bytes[j] ELSE "none",
                            ![j].prevCards = cards[j]]
    /\ UNCHANGED << status, cards, ledger, storage, image_bytes, card_details,
                    error_message, outcome >>
    /\ UNCHANGED << apivars, fetchvars, corevars >>

\* autoretry_for=(Exception,), max_retries=3: an execution that raises is
\* re-queued with request.retries + 1 while request.retries < max_retries,
\* and given up otherwise.
RetryPc(j) == IF retries[j] < max_retries THEN "queued" ELSE "idle"

RetryCount(j) == IF retries[j] < max_retries THEN retries[j] + 1 ELSE retries[j]

\* The execution of job j ends by raising an exception of the given kind.
Raises(j, kind) ==
    /\ outcome' = [outcome EXCEPT ![j] = kind]
    /\ pc' = [pc EXCEPT ![j] = RetryPc(j)]
    /\ retries' = [retries EXCEPT ![j] = RetryCount(j)]

\* The execution of job j ends by returning.
Returns(j) ==
    /\ outcome' = [outcome EXCEPT ![j] = "returned"]
    /\ pc' = [pc EXCEPT ![j] = "idle"]
    /\ UNCHANGED retries

\* What download_image_from_s3 can do:
\*   "ok"       get_object returns the object
\*   "failed"   get_object or read raises: swallowed, b"" is returned
\*   "client"   boto3.client(...) raises (lines 13-19, outside the try)
DownloadResults == {"ok", "failed", "client"}

\* download_image_from_s3: the bytes returned when it returns.
download_image_from_s3(object, r) == IF r = "ok" THEN object ELSE "empty"

\* tasks.py 25-41: look the job up; return if there is none; else set it
\* RUNNING, commit, and download the image (no database access). An
\* exception of boto3.client is no ClientError and none of the three kinds
\* the task handles: it leaves the task with the job RUNNING.
Start(j) ==
    /\ pc[j] = "queued"
    /\ IF status[j] = "NONE"
       THEN /\ Returns(j)
            /\ UNCHANGED << status, image_bytes, card_details, error_message, hist >>
       ELSE /\ status' = [status EXCEPT ![j] = "RUNNING"]
            /\ card_details' = [card_details EXCEPT ![j] = << >>]
            /\ error_message' = [error_message EXCEPT ![j] = ""]
            /\ \E r \in DownloadResults :
                 /\ hist' = [hist EXCEPT ![j] =
                      [ NoHist EXCEPT
                          !.allDlFailed = hist[j].allDlFailed /\ (r = "failed"),
                          !.executions = hist[j].executions + 1,
                          !.fullBytes = hist[j].fullBytes,
                          !.prevDone = hist[j].prevDone,
                          !.prevCards = hist[j].prevCards,
                          !.seenDone = { i \in Jobs \ {j} : hist[i].fullBytes # "none" } ] ]
                 /\ IF r = "client"
                    THEN /\ Raises(j, "Uncategorized")
                         /\ image_bytes' = [image_bytes EXCEPT ![j] = "unset"]
                    ELSE /\ image_bytes' = [image_bytes EXCEPT ![j] =
                                              download_image_from_s3(storage[j], r)]
                         /\ pc' = [pc EXCEPT ![j] = "dedup"]
                         /\ outcome' = [outcome EXCEPT ![j] = "none"]
                         /\ UNCHANGED retries
    /\ UNCHANGED << cards, ledger, storage, deliveries, redelivered >>
    /\ UNCHANGED << apivars, fetchvars, corevars >>

\* tasks.py 43-47: the dedup lookup and its short cut.
DedupCheck(j) ==
    /\ pc[j] = "dedup"
    /\ hist' = [hist EXCEPT ![j].hit =
                   \E k \in 1..Len(ledger) : ledger[k] = Sha256(image_bytes[j])]
    /\ IF is_image_processed(image_bytes[j], ledger)
       THEN /\ status' = [status EXCEPT ![j] = "COMPLETED"]
            /\ Returns(j)
       ELSE /\ pc' = [pc EXCEPT ![j] = "process"]
            /\ UNCHANGED << status, outcome, retries >>
    /\ UNCHANGED << cards, ledger, storage, deliveries, redelivered, image_bytes, card_details,
                    error_message >>
    /\ UNCHANGED << apivars, fetchvars, corevars >>

\* tasks.py 71-76 for an error raised before the final commit: the job is
\* set FAILED with the message, committed, and the error is re-raised.
Fails(j, kind, message) ==
    /\ status' = [status EXCEPT ![j] = "FAILED"]
    /\ error_message' = [error_message EXCEPT ![j] = message]
    /\ Raises(j, kind)

\* tasks.py 49-57: process_image, then extract_data with one GET per card
\* name; both are local to the execution.
Process(j) ==
    /\ pc[j] = "process"
    /\ IF ~CanDecode(image_bytes[j])
       THEN /\ Fails(j, "ImageProcessingError", "Error processing image")
            /\ hist' = [hist EXCEPT ![j].ranProcess = TRUE]
            /\ UNCHANGED card_details
       ELSE \E outcomes \in [1..Len(OcrTexts(image_bytes[j])) -> LookupOutcomes] :
              LET texts == OcrTexts(image_bytes[j])
                  failed == \E i \in Lookups(texts) : outcomes[i] = "reqerr"
              IN /\ hist' = [hist EXCEPT ![j].ranProcess = TRUE,
                                         ![j].ranExtract = TRUE,
                                         ![j].lookupFailed = failed]
                 /\ IF ExtractRaises(texts, outcomes)
                    THEN /\ Fails(j, "DataExtractionError", "Error extracting data")
                         /\ UNCHANGED card_details
                    ELSE /\ card_details' = [card_details EXCEPT ![j] =
                                               extract_data(texts, outcomes)]
                         /\ pc' = [pc EXCEPT ![j] = "commit"]
                         /\ UNCHANGED << status, error_message, outcome, retries >>
    /\ UNCHANGED << cards, ledger, storage, deliveries, redelivered, image_bytes >>
    /\ UNCHANGED << apivars, fetchvars, corevars >>

\* tasks.py 59-69 and, on IntegrityError, 71-76. The Card rows, the ledger
\* row and the COMPLETED status are one transaction. When the flush of the
\* commit fails on the unique hash, the transaction is rolled back and the
\* session is left inactive: the db.commit() of the handler raises
\* PendingRollbackError (rollback() is never called), so FAILED is not
\* committed, the row keeps RUNNING and that error leaves the task.
Commit(j) ==
    /\ pc[j] = "commit"
    /\ LET image_hash == Sha256(image_bytes[j])
           rows == CardRows(card_details[j], 1)
       IN IF UniqueViolation(ledger, image_hash)
          THEN /\ error_message' = [error_message EXCEPT ![j] = "IntegrityError"]
               /\ Raises(j, "PendingRollbackError")
               /\ UNCHANGED << status, cards, ledger, hist >>
          ELSE /\ cards' = [cards EXCEPT ![j] = @ \o rows]
               /\ ledger' = InsertProcessedImage(ledger, image_hash)
               /\ status' = [status EXCEPT ![j] = "COMPLETED"]
               /\ Returns(j)
               /\ hist' = [hist EXCEPT ![j].addedCards = Len(rows),
                                       ![j].addedLedger = TRUE,
                                       ![j].fullBytes = image_bytes[j]]
               /\ UNCHANGED error_message
    /\ UNCHANGED << storage, deliveries, redelivered, image_bytes, card_details >>
    /\ UNCHANGED << apivars, fetchvars, corevars >>

Next ==
    \E j \in Jobs :
        \/ Deliver(j)
        \/ Start(j)
        \/ DedupCheck(j)
        \/ Process(j)
        \/ Commit(j)

Spec == Init /\ [][Next]_vars

\* ------------------------------------------------------- the job service

\* Values of the status field of a PUT /jobs/{job_id} body
\* (schemas.ProcessingJobCreate.status: str): the four statuses, the empty
\* string and another string.
UpdateStatuses == Statuses \cup {"", "ARCHIVED"}

\* job_service/app.py 162-182, update_job: 404 when the row is missing; else
\* every truthy field of the body is set on the row, status among them, and
\* committed (started_at and ended_at are not part of the model).
UpdateJob(j, s) ==
    /\ api_calls < MaxApiCalls
    /\ api_calls' = api_calls + 1
    /\ IF status[j] = "NONE" \/ s = ""
       THEN UNCHANGED status
       ELSE status' = [status EXCEPT ![j] = s]
    /\ UNCHANGED << cards, ledger, storage, pc, retries, deliveries, redelivered,
                    image_bytes, card_details, error_message, outcome, hist >>
    /\ UNCHANGED << published, create_response >>
    /\ UNCHANGED << fetchvars, corevars >>

\* delete_job marking the row instead of deleting it.
DeleteJob_marks(j) ==
    /\ api_calls < MaxApiCalls
    /\ pc[j] = "idle"
    /\ api_calls' = api_calls + 1
    /\ IF status[j] = "NONE"
       THEN UNCHANGED << status, cards >>
       ELSE /\ status' = [status EXCEPT ![j] = "FAILED"]
            /\ cards' = [cards EXCEPT ![j] = << >>]
    /\ UNCHANGED << ledger, storage, pc, retries, deliveries, redelivered,
                    image_bytes, card_details, error_message, outcome, hist >>
    /\ UNCHANGED << published, create_response >>
    /\ UNCHANGED << fetchvars, corevars >>

\* job_service/app.py 184-205, delete_job: 404 when the row is missing; else
\* the row is deleted and its Card rows lose their job. A delete while an
\* execution of the job's task holds the row is outside the model.
DeleteJob(j) ==
    /\ api_calls < MaxApiCalls
    /\ pc[j] = "idle"
    /\ api_calls' = api_calls + 1
    /\ IF status[j] = "NONE"
       THEN UNCHANGED << status, cards >>
       ELSE /\ status' = [status EXCEPT ![j] = "NONE"]
            /\ cards' = [cards EXCEPT ![j] = << >>]
    /\ UNCHANGED << ledger, storage, pc, retries, deliveries, redelivered,
                    image_bytes, card_details, error_message, outcome, hist >>
    /\ UNCHANGED << published, create_response >>
    /\ UNCHANGED << fetchvars, corevars >>

\* What can happen to a create_job call: it succeeds, generate_presigned_url
\* raises, the connection to RabbitMQ or basic_publish raises, or
\* connection.close() raises after the message was published.
CreateOutcomes == {"ok", "url_fails", "publish_fails", "close_fails"}

\* job_service/app.py 103-105 and 118-123: the handler of a failure of
\* generate_presigned_url logs and raises; the handler of a failure of the
\* publishing deletes the row and commits.
CreateKeepsRow(o) == o = "url_fails"

\* job_service/app.py 73-126, create_job; j is the id the database gives the
\* new row, an id that no row has had. The row is committed with status
\* PENDING (86-94), then the upload URL is generated (96-105) and the id is
\* published (107-123).
CreateJob(j, o) ==
    /\ api_calls < MaxApiCalls
    /\ status[j] = "NONE"
    /\ j \notin published
    /\ create_response[j] = "none"
    /\ api_calls' = api_calls + 1
    /\ status' = [status EXCEPT ![j] = IF o = "ok" \/ CreateKeepsRow(o)
                                       THEN "PENDING" ELSE "NONE"]
    /\ published' = IF o \in {"ok", "close_fails"}
                    THEN published \cup {j} ELSE published
    /\ create_response' = [create_response EXCEPT ![j] =
                               IF o = "ok" THEN "200" ELSE "500"]
    /\ UNCHANGED << cards, ledger, storage, pc, retries, deliveries, redelivered,
                    image_bytes, card_details, error_message, outcome, hist >>
    /\ UNCHANGED << fetchvars, corevars >>

\* One job with a row, one job id without.
InitApi ==
    /\ Init
    /\ status[1] = "PENDING"
    /\ status[2] = "NONE"

NextApi ==
    \/ Next
    \/ \E j \in Jobs : \E s \in UpdateStatuses : UpdateJob(j, s)
    \/ \E j \in Jobs : DeleteJob(j)

\* The task together with the job service.
SpecApi == InitApi /\ [][NextApi]_vars

NextCreate ==
    \/ NextApi
    \/ \E j \in Jobs : \E o \in CreateOutcomes : CreateJob(j, o)

\* The task together with the job service, create_job included.
SpecCreate == InitApi /\ [][NextCreate]_vars

\* ------------------------------------------- CardDataFetcher: the calls

\* fetch_card_data of caller c ends with res (a list returned, or an error
\* raised); good: the file is then as a refresh left it within
\* cache_duration.
Ends(c, names, res, good) ==
    /\ result' = [result EXCEPT ![c] = res]
    /\ fpc' = [fpc EXCEPT ![c] = "idle"]
    /\ last' = [names |-> names, raised |-> res.raised, data |-> res.data, good |-> good]

\* The callers other than c that have the file open for writing.
Writers(c) == { w \in Callers \ {c} : fpc[w] \in {"dump", "flushed"} }

\* fetch_card_data(names) up to the API fetch, lines 187-190 and 241-269:
\* the validity check and, for a valid cache, the load with validation and
\* filter. The call returns from here, or goes on to the API.
FetchBegin(c, names) ==
    /\ fpc[c] = "idle"
    /\ calls < MaxCalls
    /\ calls' = calls + 1
    /\ card_names' = [card_names EXCEPT ![c] = names]
    /\ gets' = [gets EXCEPT ![c] = 0]
    /\ validated_api_data' = [validated_api_data EXCEPT ![c] = << >>]
    /\ LET valid == is_cache_valid(cache_file, now)
           cp == CachePath(cache_file, names)
           opened == valid /\ cache_file.openable
           during == opened /\ Writers(c) # {}
           w == CHOOSE w \in Callers : during => w \in Writers(c)
           h == [ NoFetchHist EXCEPT
                    !.sawExists = cache_file.exists,
                    !.fileBefore = cache_file,
                    !.sawAge = now - cache_file.mtime,
                    !.tookCache = valid,
                    !.loadError = IF valid THEN cp.raises ELSE "none",
                    !.readDuring = during,
                    !.readChunks = IF opened THEN cache_file.chunks ELSE << >>,
                    !.oldChunks = IF during THEN fh[w].oldChunks ELSE << >>,
                    !.newChunks = IF during THEN json_dump(validated_api_data[w]) ELSE << >>,
                    !.fresh = refreshed.valid /\ (now - refreshed.at) < cache_duration,
                    !.prev = last ]
       IN /\ fh' = [fh EXCEPT ![c] = h]
          /\ IF valid /\ cp.raises = "none"
             THEN Ends(c, names, [raised |-> "none", data |-> cp.data], h.fresh)
             ELSE IF valid /\ AfterLoadFailure(cp.raises) = "raise"
                  THEN Ends(c, names, [raised |-> cp.raises, data |-> << >>], FALSE)
                  ELSE /\ fpc' = [fpc EXCEPT ![c] = "api"]
                       /\ result' = [result EXCEPT ![c] = [raised |-> "running", data |-> << >>]]
                       /\ UNCHANGED last
    /\ UNCHANGED << now, cache_file, refreshed >>
    /\ UNCHANGED << taskvars, apivars, corevars >>

\* Lines 271-298 and 311-316: one GET, the checks of the response, the
\* validation of its entries.
ApiGet(c, resp, jsonError) ==
    /\ fpc[c] = "api"
    /\ gets' = [gets EXCEPT ![c] = @ + 1]
    /\ LET err == ApiPath(resp, jsonError)
       IN /\ fh' = [fh EXCEPT ![c].response = resp, ![c].apiOk = (err = "none")]
          /\ IF err # "none"
             THEN /\ Ends(c, card_names[c], [raised |-> err, data |-> << >>], FALSE)
                  /\ UNCHANGED validated_api_data
             ELSE /\ validated_api_data' = [validated_api_data EXCEPT ![c] =
                                              ValidateApiData(json_load(resp.body))]
                  /\ fpc' = [fpc EXCEPT ![c] = "save"]
                  /\ UNCHANGED << result, last >>
    /\ UNCHANGED << now, cache_file, card_names, calls, refreshed >>
    /\ UNCHANGED << taskvars, apivars, corevars >>

\* How the call ends when the save has raised e (lines 154-159, 317).
SaveFails(c, e) ==
    IF SaveRaises(e) = "none"
    THEN Ends(c, card_names[c],
              [raised |-> "none",
               data |-> FilterByNames(validated_api_data[c], card_names[c])], FALSE)
    ELSE Ends(c, card_names[c], [raised |-> SaveRaises(e), data |-> << >>], FALSE)

\* _save_to_cache, lines 150-151: makedirs and open(cache_file, "w"). They
\* raise (no directory in the path, no permission, the path is a directory),
\* or the file is created or truncated at once.
SaveOpen(c, ok) ==
    /\ fpc[c] = "save"
    /\ IF ok /\ cache_file.openable
       THEN /\ cache_file' = [exists |-> TRUE, openable |-> TRUE, mtime |-> now,
                              chunks |-> << >>]
            /\ fh' = [fh EXCEPT ![c].oldChunks = cache_file.chunks]
            /\ fpc' = [fpc EXCEPT ![c] = "dump"]
            /\ refreshed' = [refreshed EXCEPT !.valid = FALSE]
            /\ last' = [last EXCEPT !.good = FALSE]
            /\ UNCHANGED result
       ELSE /\ fh' = [fh EXCEPT ![c].saveFailed = TRUE]
            /\ SaveFails(c, "open")
            /\ UNCHANGED << cache_file, refreshed >>
    /\ UNCHANGED << now, card_names, gets, validated_api_data, calls >>
    /\ UNCHANGED << taskvars, apivars, corevars >>

\* json.dump in progress, line 152: the buffer of the file object is
\* flushed when it is full, so the first n chunks reach the file before the
\* rest is produced.
SaveFlush(c, n) ==
    /\ fpc[c] = "dump"
    /\ n \in 1..(Len(json_dump(validated_api_data[c])) - 1)
    /\ cache_file' = [cache_file EXCEPT
                        !.mtime = now,
                        !.chunks = Overlay(SubSeq(json_dump(validated_api_data[c]), 1, n), @)]
    /\ UNCHANGED fh
    /\ fpc' = [fpc EXCEPT ![c] = "flushed"]
    /\ refreshed' = [refreshed EXCEPT !.valid = FALSE]
    /\ last' = [last EXCEPT !.good = FALSE]
    /\ UNCHANGED << now, card_names, gets, validated_api_data, result, calls >>
    /\ UNCHANGED << taskvars, apivars, corevars >>

\* Lines 152-153 and 303-309: json.dump completes and the file is closed,
\* then the validated list is filtered and returned; or the write raises
\* (the disk is full) and what was flushed stays.
SaveDump(c, ok) ==
    /\ fpc[c] \in {"dump", "flushed"}
    /\ LET dumped == json_dump(validated_api_data[c])
           chunks == Overlay(dumped, cache_file.chunks)
       IN IF ok
          THEN /\ cache_file' = [cache_file EXCEPT !.mtime = now, !.chunks = chunks]
               /\ fh' = [fh EXCEPT ![c].wrote = TRUE,
                                    ![c].written = validated_api_data[c],
                                    ![c].fileAfter = chunks]
               /\ refreshed' = [valid |-> chunks = dumped, at |-> now,
                                data |-> validated_api_data[c]]
               /\ Ends(c, card_names[c],
                       [raised |-> "none",
                        data |-> FilterByNames(validated_api_data[c], card_names[c])],
                       chunks = dumped)
          ELSE /\ fh' = [fh EXCEPT ![c].saveFailed = TRUE]
               /\ SaveFails(c, "write")
               /\ UNCHANGED << cache_file, refreshed >>
    /\ UNCHANGED << now, card_names, gets, validated_api_data, calls >>
    /\ UNCHANGED << taskvars, apivars, corevars >>

\* time.time() advances.
Tick ==
    /\ now < MaxTime
    /\ now' = now + 1
    /\ UNCHANGED << cache_file, fpc, card_names, gets, validated_api_data,
                    result, calls, fh, refreshed, last >>
    /\ UNCHANGED << taskvars, apivars, corevars >>

\* No job and no request: the fetcher alone, with the cache file an earlier
\* run may have left.
InitFetch ==
    /\ TaskInit
    /\ status = [j \in Jobs |-> "NONE"]
    /\ ApiIdle
    /\ CoreIdle
    /\ now = 0
    /\ cache_file \in CacheFiles
    /\ fpc = [c \in Callers |-> "idle"]
    /\ card_names = [c \in Callers |-> << >>]
    /\ gets = [c \in Callers |-> 0]
    /\ validated_api_data = [c \in Callers |-> << >>]
    /\ result = [c \in Callers |-> NoResult]
    /\ calls = 0
    /\ fh = [c \in Callers |-> NoFetchHist]
    /\ refreshed = [valid |-> FALSE, at |-> 0, data |-> << >>]
    /\ last = NoLast

\* A step of the call of caller c once it has begun.
FetchStep(c) ==
    \/ \E resp \in Responses : \E jsonError \in JsonErrors : ApiGet(c, resp, jsonError)
    \/ \E ok \in BOOLEAN : SaveOpen(c, ok)
    \/ \E n \in 1..(Len(json_dump(validated_api_data[c])) - 1) : SaveFlush(c, n)
    \/ \E ok \in BOOLEAN : SaveDump(c, ok)

\* The calls of one caller, one after the other.
NextFetch ==
    \/ \E names \in CardNames : FetchBegin(1, names)
    \/ FetchStep(1)
    \/ Tick

\* One CardDataFetcher, the calls of its caller and the clock.
SpecFetch == InitFetch /\ [][NextFetch]_vars

\* The cache file of an earlier run, complete and with valid entries only.
InitShared ==
    /\ InitFetch
    /\ cache_file.chunks = json_dump(<< Elsa >>)

\* Each caller calls fetch_card_data once, at any time: the calls overlap.
NextShared ==
    \/ \E c \in Callers :
        \/ \E names \in CardNames :
              /\ result[c] = NoResult
              /\ FetchBegin(c, names)
        \/ FetchStep(c)
    \/ Tick

\* The callers of one cache file calling concurrently.
SpecShared == InitShared /\ [][NextShared]_vars

\* ------------------------- CardSegmenter, run_inference, process_images

\* image.shape of the image given to segment_cards, in pixels.
ImageShape == [height |-> 2, width |-> 2]

\* A float coordinate is held as its number of halves; int() truncates
\* toward zero (card_segmenter.py 132).
int(h) == IF h >= 0 THEN h \div 2 ELSE -((-h) \div 2)

\* Rows of boxes.xyxy the detector can give for the image, <<x1, y1, x2, y2>>
\* in halves: the whole image, its upper left pixel, a box one pixel wider
\* than the image, a box of no width, and a box half a pixel wider than the
\* image.
BoxWhole == << 0, 0, 4, 4 >>
BoxPixel == << 0, 0, 2, 2 >>
BoxWide  == << 0, 0, 6, 4 >>
BoxEmpty == << 2, 0, 2, 4 >>
BoxFrac  == << 0, 0, 5, 4 >>
Boxes == {BoxWhole, BoxPixel, BoxWide, BoxEmpty, BoxFrac}

\* boxes.conf in tenths; None, which is no number, when the detector gives
\* no scores (card_segmenter.py 113-115, 123).
None == 0 - 1
Confidences == {4, 5, 6}
Thresholds == {5, 6}

\* What pytesseract does with the crop of a detection.
OcrOutcomes == {"text", "raises"}

Detection == [bbox : Boxes, conf : Confidences \cup {None}, ocr : OcrOutcomes]

\* boxes.conf is None or an array: either every detection has a score or
\* none has.
DetectionLists ==
    { d \in UNION { [1..n -> Detection] : n \in 0..MaxDetections } :
        \/ \A i \in DOMAIN d : d[i].conf = None
        \/ \A i \in DOMAIN d : d[i].conf # None }

\* What self.model.predict can do for an image: raise, give a result without
\* masks, or give masks, boxes and (perhaps) scores.
DetectorResults ==
    {[kind |-> "raises", dets |-> << >>], [kind |-> "no_masks", dets |-> << >>]}
    \cup {[kind |-> "masks", dets |-> d] : d \in DetectionLists}

\* card_segmenter.py 132-136: the check of the truncated coordinates.
BBoxValid(b) ==
    LET x1 == int(b[1])
        y1 == int(b[2])
        x2 == int(b[3])
        y2 == int(b[4])
    IN  /\ 0 <= x1 /\ x1 < x2 /\ x2 <= ImageShape.width
        /\ 0 <= y1 /\ y1 < y2 /\ y2 <= ImageShape.height

\* card_segmenter.py 181-266, identify_card_name: every exception of the OCR
\* is caught and a name is returned.
identify_card_name(ocr) ==
    IF ocr = "text" THEN "Elsa" ELSE "Error Identifying Card Name"

\* card_segmenter.py 125-129, 143, 147: the dict of detection i; mask stands
\* for masks_data[i], bbox is the row of boxes_data as the detector gave it.
SegmentationInfo(dets, i) ==
    [ mask       |-> i,
      bbox       |-> dets[i].bbox,
      confidence |-> dets[i].conf,
      card_name  |-> identify_card_name(dets[i].ocr) ]

\* card_segmenter.py 120-164, the loop: a detection whose bbox fails the
\* check is skipped (136-139); the dict of any other is appended at line 150
\* and again at line 164. _save_individual_card_image (156-162) catches what
\* it raises and returns nothing.
RECURSIVE SegmentLoop(_, _, _)
SegmentLoop(dets, i, acc) ==
    IF i > Len(dets) THEN acc
    ELSE IF ~BBoxValid(dets[i].bbox)
         THEN SegmentLoop(dets, i + 1, acc)
         ELSE SegmentLoop(dets, i + 1,
                 Append(Append(acc, SegmentationInfo(dets, i)),
                        SegmentationInfo(dets, i)))

\* card_segmenter.py 80-179, segment_cards.
segment_cards(r) ==
    CASE r.kind = "raises" ->
            [raised |-> "RuntimeError", detail |-> "Segmentation failed",
             names_image |-> FALSE, value |-> << >>]
      [] r.kind = "no_masks" ->
            [raised |-> "none", detail |-> "", names_image |-> FALSE, value |-> << >>]
      [] OTHER ->
            [raised |-> "none", detail |-> "", names_image |-> FALSE,
             value |-> SegmentLoop(r.dets, 1, << >>)]

\* inference.py 56 with > in place of >=.
ConfidenceAtLeast_above(c, t) == c > t

\* inference.py 56: the test of the filter.
ConfidenceAtLeast(c, t) == c >= t

\* inference.py 19-70, run_inference: a RuntimeError of the segmenter is
\* raised again (65-67); an empty list is returned as it is (47-49); the
\* comparison of None with the threshold raises TypeError, which is caught
\* and answered with [] (68-70).
run_inference(r, t) ==
    LET s == segment_cards(r)
        keeps(d) == ConfidenceAtLeast(d.confidence, t)
    IN  IF s.raised = "RuntimeError" THEN s
        ELSE IF s.value = << >> THEN s
        ELSE IF \E i \in DOMAIN s.value : s.value[i].confidence = None
             THEN [s EXCEPT !.value = << >>]
             ELSE [s EXCEPT !.value = SelectSeq(s.value, keeps)]

\* inference.py 19-24: the parameters of run_inference, none has a default.
RunInferenceParams ==
    << "image", "segmenter", "confidence_threshold", "original_image_path" >>

\* image_processor.py 76-80: the arguments process_images calls it with.
ProcessImagesArgs == << "image", "card_segmenter", "confidence_threshold" >>

\* The call of image_processor.py 76-80: a call that leaves a parameter
\* without a value raises TypeError before the body of run_inference runs.
CallRunInference(r, t) ==
    IF Len(ProcessImagesArgs) < Len(RunInferenceParams)
    THEN [raised |-> "TypeError", detail |-> "missing argument",
          names_image |-> FALSE, value |-> << >>]
    ELSE run_inference(r, t)

\* image_processor.py 89-100, the handlers of the try: ImageProcessingError
\* and RuntimeError are raised again as they are; anything else is raised as
\* an ImageProcessingError whose message holds image_path and the message of
\* the cause.
ProcessImagesExcept(o) ==
    IF o.raised \in {"ImageProcessingError", "RuntimeError"}
    THEN o
    ELSE [raised |-> "ImageProcessingError", detail |-> o.detail,
          names_image |-> TRUE, value |-> << >>]

\* What the image file of a process_images call can be.
ImageFiles == {"missing", "unreadable", "readable"}

\* image_processor.py 18-103, process_images for one image file.
process_images(file, r, t) ==
    CASE file = "missing" ->
            [raised |-> "FileNotFoundError", detail |-> "Image file not found",
             names_image |-> TRUE, value |-> << >>]
      [] file = "unreadable" ->
            ProcessImagesExcept(
               [raised |-> "ImageProcessingError", detail |-> "Could not read image",
                names_image |-> TRUE, value |-> << >>])
      [] OTHER ->
            LET o == CallRunInference(r, t)
            IN  IF o.raised = "none"
                THEN [o EXCEPT !.value = << [image_path |-> file,
                                            segmentations |-> o.value] >>]
                ELSE ProcessImagesExcept(o)

\* A call of segment_cards for the image.
SegmentCards ==
    /\ segmentations = NoOutcome
    /\ segmentations' = segment_cards(results)
    /\ UNCHANGED << results, confidence_threshold, filtered_results,
                    processed_data_list >>
    /\ UNCHANGED << taskvars, apivars, fetchvars, prevars, netvars >>

\* A call of run_inference for the image.
RunInference ==
    /\ filtered_results = NoOutcome
    /\ filtered_results' = run_inference(results, confidence_threshold)
    /\ UNCHANGED << results, confidence_threshold, segmentations,
                    processed_data_list >>
    /\ UNCHANGED << taskvars, apivars, fetchvars, prevars, netvars >>

\* A call of process_images for the image file.
ProcessImages(file) ==
    /\ processed_data_list = NoOutcome
    /\ processed_data_list' = process_images(file, results, confidence_threshold)
    /\ UNCHANGED << results, confidence_threshold, segmentations,
                    filtered_results >>
    /\ UNCHANGED << taskvars, apivars, fetchvars, prevars, netvars >>

\* Any detector result and any configured threshold.
InitSeg ==
    /\ TaskInit
    /\ status = [j \in Jobs |-> "NONE"]
    /\ ApiIdle
    /\ FetchIdle
    /\ PreIdle
    /\ NetIdle
    /\ results \in DetectorResults
    /\ confidence_threshold \in Thresholds
    /\ segmentations = NoOutcome
    /\ filtered_results = NoOutcome
    /\ processed_data_list = NoOutcome

NextSeg ==
    \/ SegmentCards
    \/ RunInference
    \/ \E file \in ImageFiles : ProcessImages(file)

SpecSeg == InitSeg /\ [][NextSeg]_vars

\* --------------------------------------------- ImagePreprocessor.preprocess

\* An array is held as its number of dimensions (3: colour, 2: grayscale)
\* and the transformations it has been through.
InputImages == {[ndim |-> 3, ops |-> << >>], [ndim |-> 2, ops |-> << >>]}

\* image_preprocessor.py 53-59: the keys of self._step_functions.
step_functions == {"noise_reduction", "illumination_normalization", "grayscale_conversion"}

\* Step names a configuration can hold: the three above and one that is not
\* a key of _step_functions.
StepNames == step_functions \cup {"unknown_fancy_filter"}

\* The parameters of a step: keyword arguments the step function has, or one
\* it has not.
StepParams == {"ok", "unexpected_keyword"}

\* config["steps"] is a dict: its keys are distinct and keep the order of
\* their declaration.
StepConfigs ==
    { c \in UNION { [1..n -> [name : StepNames, params : StepParams]] : n \in 0..MaxSteps } :
        \A i, k \in DOMAIN c : i # k => c[i].name # c[k].name }

\* noise_reducer.py, reduce_noise: cv2.fastNlMeansDenoisingColored gives a new
\* array and raises for an array that is not a colour image.
reduce_noise(img, params) ==
    IF params = "unexpected_keyword" \/ img.ndim # 3
    THEN [raises |-> TRUE, image |-> NoImage]
    ELSE [raises |-> FALSE, image |-> [img EXCEPT !.ops = Append(@, "denoised")]]

\* illumination_normalizer.py, normalize_illumination: cv2.cvtColor with
\* COLOR_BGR2Lab raises for an array that is not a colour image.
normalize_illumination(img, params) ==
    IF params = "unexpected_keyword" \/ img.ndim # 3
    THEN [raises |-> TRUE, image |-> NoImage]
    ELSE [raises |-> FALSE, image |-> [img EXCEPT !.ops = Append(@, "normalized")]]

\* grayscale_converter.py, convert_to_grayscale: a 2-D array is returned as
\* it is.
convert_to_grayscale(img) ==
    IF img.ndim = 2
    THEN [raises |-> FALSE, image |-> img]
    ELSE [raises |-> FALSE, image |-> [ndim |-> 2, ops |-> Append(img.ops, "gray")]]

\* image_preprocessor.py 91-100: the call of the step function; the
\* parameters are not given to grayscale_conversion. A name that is no key of
\* _step_functions raises KeyError at line 91.
StepFunction(step_name, img, params) ==
    CASE step_name = "noise_reduction" -> reduce_noise(img, params)
      [] step_name = "illumination_normalization" -> normalize_illumination(img, params)
      [] step_name = "grayscale_conversion" -> convert_to_grayscale(img)
      [] OTHER -> [raises |-> TRUE, image |-> NoImage]

\* Line 90 with every configured name taken for a step function.
IsRecognised_any(step_name) == TRUE

\* image_preprocessor.py 90: step_name in self._step_functions.
IsRecognised(step_name) == step_name \in step_functions

\* image_preprocessor.py 79-85: preprocess begins with a copy of the image.
PreprocessBegin ==
    /\ processed_image = NoImage
    /\ returned = NoImage
    /\ processed_image' = image
    /\ step_index' = 1
    /\ plog' = << >>
    /\ UNCHANGED << image, steps_to_apply, returned >>
    /\ UNCHANGED << taskvars, apivars, fetchvars, segvars, netvars >>

\* image_preprocessor.py 88-112, one turn of the loop: a step function is
\* called with processed_image and its result becomes processed_image; when
\* it raises, the error is logged and processed_image stays (102-109); a
\* name that is not recognised is logged as a warning (110-112).
PreprocessStep ==
    /\ processed_image # NoImage
    /\ step_index \in 1..Len(steps_to_apply)
    /\ LET step == steps_to_apply[step_index]
           o == StepFunction(step.name, processed_image, step.params)
       IN  IF IsRecognised(step.name)
           THEN /\ processed_image' = IF o.raises THEN processed_image ELSE o.image
                /\ plog' = Append(plog, [event |-> "call", step |-> step.name,
                                         input |-> processed_image,
                                         raises |-> o.raises, output |-> o.image])
           ELSE /\ processed_image' = processed_image
                /\ plog' = Append(plog, [event |-> "warning", step |-> step.name,
                                         input |-> NoImage,
                                         raises |-> FALSE, output |-> NoImage])
    /\ step_index' = step_index + 1
    /\ UNCHANGED << image, steps_to_apply, returned >>
    /\ UNCHANGED << taskvars, apivars, fetchvars, segvars, netvars >>

\* image_preprocessor.py 114-115: return processed_image.
PreprocessReturn ==
    /\ processed_image # NoImage
    /\ step_index > Len(steps_to_apply)
    /\ returned' = processed_image
    /\ processed_image' = NoImage
    /\ UNCHANGED << image, steps_to_apply, step_index, plog >>
    /\ UNCHANGED << taskvars, apivars, fetchvars, segvars, netvars >>

\* Any image and any configuration of up to MaxSteps steps.
InitPre ==
    /\ TaskInit
    /\ status = [j \in Jobs |-> "NONE"]
    /\ ApiIdle
    /\ FetchIdle
    /\ SegIdle
    /\ NetIdle
    /\ image \in InputImages
    /\ steps_to_apply \in StepConfigs
    /\ processed_image = NoImage
    /\ step_index = 0
    /\ returned = NoImage
    /\ plog = << >>

NextPre ==
    \/ PreprocessBegin
    \/ PreprocessStep
    \/ PreprocessReturn

SpecPre == InitPre /\ [][NextPre]_vars

\* ------------------------------------------------ calls to remote services

\* The timeout argument of the call at each site: requests.get(url) at
\* card_data_fetcher.py 274, data_extraction.py 11 and file_utils.py 32 is
\* given none, and boto3.client at file_utils.py 13-19 is given no Config.
ExplicitTimeout(site) == "None"

\* The time after which the library gives up waiting: requests without a
\* timeout waits without limit; botocore without a Config uses its default
\* connect and read timeouts.
EffectiveTimeout(site) ==
    IF site = "s3_get_object" THEN "botocore default" ELSE ExplicitTimeout(site)

\* What the remote side does with a request: it answers (with any status),
\* or it accepts the connection and never answers.
Remotes == {"answers", "silent"}

\* The code makes the call and waits.
NetCall(site, remote) ==
    /\ netpc[site] = "idle"
    /\ netpc' = [netpc EXCEPT ![site] =
                    IF remote = "answers" THEN "waiting" ELSE "waiting_silent"]
    /\ UNCHANGED << taskvars, apivars, fetchvars, segvars, prevars >>

\* The answer arrives and the call returns or raises for its status.
NetRespond(site) ==
    /\ netpc[site] = "waiting"
    /\ netpc' = [netpc EXCEPT ![site] = "returned"]
    /\ UNCHANGED << taskvars, apivars, fetchvars, segvars, prevars >>

\* The library's timeout ends the wait with an exception, which the caller
\* catches (file_utils.py 23-25).
NetTimeout(site) ==
    /\ netpc[site] \in {"waiting", "waiting_silent"}
    /\ EffectiveTimeout(site) # "None"
    /\ netpc' = [netpc EXCEPT ![site] = "timed_out"]
    /\ UNCHANGED << taskvars, apivars, fetchvars, segvars, prevars >>

InitNet ==
    /\ TaskInit
    /\ status = [j \in Jobs |-> "NONE"]
    /\ ApiIdle
    /\ FetchIdle
    /\ SegIdle
    /\ PreIdle
    /\ NetIdle

NextNet ==
    \/ \E site \in Sites : \E remote \in Remotes : NetCall(site, remote)
    \/ \E site \in Sites : NetRespond(site)
    \/ \E site \in Sites : NetTimeout(site)

\* A remote side that answers does so in the end, and a timeout that is set
\* fires in the end; nothing makes a silent remote side answer.
SpecNet ==
    /\ InitNet
    /\ [][NextNet]_vars
    /\ \A site \in Sites : WF_vars(NetRespond(site))
    /\ \A site \in Sites : WF_vars(NetTimeout(site))

\* ------------------------------------------------------------------ claims

\* The task of job j is not running and not queued.
Finished(j) == pc[j] = "idle" /\ outcome[j] # "none"

\* The last execution of job j ended by raising.
Raised(j) == outcome[j] \notin {"none", "returned"}

\* Rows of the ledger carrying digest h.
RowsWith(h) == { n \in 1..Len(ledger) : ledger[n] = h }

\* C1: the status of a job only moves PENDING -> RUNNING -> COMPLETED or
\* PENDING -> RUNNING -> FAILED; a terminal status is never left.
C1_StatusMonotone ==
    [][ \A j \in Jobs :
          status'[j] # status[j] =>
             << status[j], status'[j] >> \in
                { << "PENDING", "RUNNING" >>, << "RUNNING", "COMPLETED" >>,
                  << "RUNNING", "FAILED" >> } ]_vars

\* C11: when the message of a job that is COMPLETED is delivered again,
\* the job ends COMPLETED again, its Card rows are the ones it had and the
\* handling adds no ledger row.
C11_RedeliveryIdempotent ==
    \A j \in Jobs :
        ( /\ hist[j].prevDone # "none"
          /\ hist[j].executions >= 1
          /\ Finished(j) ) =>
            /\ status[j] = "COMPLETED"
            /\ cards[j] = hist[j].prevCards
            /\ ~hist[j].addedLedger

\* A step of process_image_task for job j.
TaskStep(j) == Start(j) \/ DedupCheck(j) \/ Process(j) \/ Commit(j)

\* C12 as stated: the status of a job that has a row is changed only by
\* steps of process_image_task.
C12_StatusOnlyByTask ==
    [][ \A j \in Jobs :
          (status[j] # "NONE" /\ status'[j] # status[j] /\ status'[j] # "NONE") =>
              TaskStep(j) ]_vars

\* C12: the status of a job that has a row is changed only by steps of
\* process_image_task and by update_job with a non-empty status in its body.
C12_StatusByTaskOrUpdate ==
    [][ \A j \in Jobs :
          (status[j] # "NONE" /\ status'[j] # status[j] /\ status'[j] # "NONE") =>
              \/ TaskStep(j)
              \/ \E s \in UpdateStatuses \ {""} : UpdateJob(j, s) ]_vars

\* update_job has given a job a status the task never writes.
C12_Witness == \E j \in Jobs : status[j] = "ARCHIVED"

\* The last fetch_card_data call of caller c has ended.
FetchDone(c) == fpc[c] = "idle" /\ result[c].raised # "nocall"

\* The entry carries name, type and set.
HasFields(e) == {"name", "type", "set"} \subseteq DOMAIN e

\* C13: a fetch_card_data([]) call that follows a fetch_card_data([]) call,
\* both within cache_duration of a successful refresh and with the cache file
\* as the refresh left it, returns the list the first call returned and
\* makes no HTTP request.
C13_SecondCallFromCache ==
    \A c \in Callers :
        ( /\ FetchDone(c)
          /\ card_names[c] = << >>
          /\ fh[c].fresh
          /\ fh[c].prev.names = << >>
          /\ fh[c].prev.raised = "none"
          /\ fh[c].prev.good ) =>
            /\ result[c].raised = "none"
            /\ result[c].data = fh[c].prev.data
            /\ gets[c] = 0

\* A second call for all cards has been served a non-empty list within
\* cache_duration of the refresh, at a later time than the refresh.
C13_Witness ==
    \E c \in Callers :
        /\ FetchDone(c)
        /\ card_names[c] = << >>
        /\ fh[c].fresh
        /\ fh[c].prev.names = << >>
        /\ fh[c].prev.raised = "none"
        /\ fh[c].prev.good
        /\ Len(result[c].data) >= 2
        /\ fh[c].tookCache
        /\ fh[c].sawAge > 0

\* C14: the validity check says valid exactly when the file exists and
\* now - mtime < cache_duration; a call makes at most one GET, and exactly
\* one when the file is missing or now - mtime >= cache_duration.
C14_OneGetWhenInvalid ==
    \A c \in Callers :
        /\ gets[c] <= 1
        /\ result[c].raised # "nocall" =>
              (fh[c].tookCache <=> (fh[c].sawExists /\ fh[c].sawAge < cache_duration))
        /\ ( /\ FetchDone(c)
             /\ (~fh[c].sawExists \/ fh[c].sawAge >= cache_duration) ) => gets[c] = 1

\* A call that found the file exactly cache_duration old has ended after
\* one GET.
C14_Witness ==
    \E c \in Callers :
        /\ FetchDone(c)
        /\ fh[c].sawExists
        /\ fh[c].sawAge = cache_duration
        /\ gets[c] = 1

\* The entries of a response body that are objects with name, type and set.
ValidEntries(body) == SelectSeq(json_load(body), HasFields)

\* C15: every entry a call returns, every entry a refresh hands to
\* json.dump and every entry of the file it has written carries name, type
\* and set.
C15_EntriesCarryFields ==
    \A c \in Callers :
        /\ \A i \in 1..Len(result[c].data) : HasFields(result[c].data[i])
        /\ \A i \in 1..Len(fh[c].written) : HasFields(fh[c].written[i])
        /\ (fh[c].wrote /\ ~fh[c].saveFailed) =>
              /\ JsonKind(fh[c].fileAfter) = "list"
              /\ \A i \in 1..Len(json_load(fh[c].fileAfter)) :
                    HasFields(json_load(fh[c].fileAfter)[i])

\* A call has returned entries from a valid cache file that holds an entry
\* without type.
C15_Witness ==
    \E c \in Callers :
        /\ FetchDone(c)
        /\ fh[c].tookCache
        /\ \E i \in 1..Len(fh[c].readChunks) : fh[c].readChunks[i] = ItemText(OlafNoType)
        /\ result[c].raised = "none"
        /\ Len(result[c].data) >= 1

\* C16: a call that found the cache file time-valid and failed to load it
\* makes one GET and does not end with the error of the load: it raises
\* only what the API fetch or the save raises, and when both succeed the
\* file holds the validated response and the call returns it, filtered.
C16_LoadFailureFallsThrough ==
    \A c \in Callers :
        ( /\ FetchDone(c)
          /\ fh[c].tookCache
          /\ fh[c].loadError # "none" ) =>
            /\ gets[c] = 1
            /\ result[c].raised # "none" => (~fh[c].apiOk \/ fh[c].saveFailed)
            /\ (fh[c].apiOk /\ ~fh[c].saveFailed) =>
                  /\ result[c].raised = "none"
                  /\ fh[c].fileAfter = json_dump(ValidEntries(fh[c].response.body))
                  /\ cache_file.chunks = fh[c].fileAfter
                  /\ result[c].data =
                        SelectSeq(ValidEntries(fh[c].response.body),
                                  LAMBDA e : card_names[c] = << >>
                                             \/ \E k \in 1..Len(card_names[c]) :
                                                   card_names[c][k] = e.name)

\* A call has found the file time-valid, failed to load it for an item
\* that is no dict, and returned entries of the API response.
C16_Witness ==
    \E c \in Callers :
        /\ FetchDone(c)
        /\ fh[c].tookCache
        /\ fh[c].loadError = "DataFormatError"
        /\ result[c].raised = "none"
        /\ Len(result[c].data) >= 1
        /\ cache_file.chunks = json_dump(ValidEntries(fh[c].response.body))

\* The places of the entries of data that card_names selects: all places
\* for an empty card_names.
Selected(data, names) ==
    { i \in 1..Len(data) :
        names = << >> \/ \E k \in 1..Len(names) : names[k] = data[i].name }

\* C18: the list a refresh writes is the whole validated response whatever
\* card_names is, and the list it returns holds the entries of that list
\* that card_names selects, each once and in the order of that list.
C18_WritesAllReturnsFiltered ==
    \A c \in Callers :
        ( /\ FetchDone(c)
          /\ fh[c].wrote
          /\ ~fh[c].saveFailed ) =>
            LET all == fh[c].written
                sel == Selected(all, card_names[c])
                got == result[c].data
            IN /\ all = ValidEntries(fh[c].response.body)
               /\ fh[c].fileAfter = json_dump(all)
               /\ result[c].raised = "none"
               /\ Len(got) = Cardinality(sel)
               /\ \A k \in 1..Len(got) :
                     \E i \in sel : /\ Cardinality({ m \in sel : m <= i }) = k
                                    /\ got[k] = all[i]

\* A refresh for the names mickey and elsa has written three entries and
\* returned elsa and mickey, in the order of the response.
C18_Witness ==
    \E c \in Callers :
        /\ FetchDone(c)
        /\ fh[c].wrote
        /\ ~fh[c].saveFailed
        /\ card_names[c] = << "mickey", "elsa" >>
        /\ fh[c].written = << Elsa, Stitch, Mickey >>
        /\ result[c].data = << Elsa, Mickey >>

\* C19: a call whose API fetch gave a list and whose save raised ends with
\* CacheError and returns no data.
C19_SaveFailureRaises ==
    \A c \in Callers :
        ( /\ FetchDone(c)
          /\ fh[c].apiOk
          /\ fh[c].saveFailed ) =>
            /\ result[c].raised = "CacheError"
            /\ result[c].data = << >>

\* The write of a fetched list with entries has failed after the file was
\* opened.
C19_Witness ==
    \E c \in Callers :
        /\ FetchDone(c)
        /\ fh[c].apiOk
        /\ fh[c].saveFailed
        /\ Len(validated_api_data[c]) >= 1
        /\ cache_file.exists
        /\ cache_file.chunks = << >>
        /\ result[c].raised = "CacheError"

\* C20: a call whose GET failed or got an error status ends with
\* APIFetchError, a call whose response body is no JSON or no JSON array
\* ends with DataFormatError, and neither returns data.
C20_ApiErrorKinds ==
    \A c \in Callers :
        ( /\ FetchDone(c)
          /\ fh[c].response # NoResponse ) =>
            /\ fh[c].response.http # "200" =>
                  result[c] = [raised |-> "APIFetchError", data |-> << >>]
            /\ ( /\ fh[c].response.http = "200"
                 /\ JsonKind(fh[c].response.body) # "list" ) =>
                  result[c] = [raised |-> "DataFormatError", data |-> << >>]

\* C17: a call that loads the cache file while another call has it open
\* for writing reads the complete contents of before that refresh or the
\* complete contents the refresh writes.
C17_ReaderSeesWholeFile ==
    \A c \in Callers :
        fh[c].readDuring => fh[c].readChunks \in {fh[c].oldChunks, fh[c].newChunks}

\* C2: an execution whose downloaded bytes have their digest in the ledger
\* at the lookup ends with the job COMPLETED, invokes neither process_image
\* nor extract_data and adds no Card row and no ProcessedImage row.
C2_DedupShortCut ==
    \A j \in Jobs :
        hist[j].hit =>
            /\ status[j] = "COMPLETED"
            /\ outcome[j] = "returned"
            /\ ~hist[j].ranProcess
            /\ ~hist[j].ranExtract
            /\ hist[j].addedCards = 0
            /\ ~hist[j].addedLedger

C2_Witness ==
    \E j \in Jobs :
        /\ hist[j].hit
        /\ Finished(j)
        /\ image_bytes[j] \in StoredImages
        /\ status[j] = "COMPLETED"

\* C3: a job whose task has ended, its last execution having lost the
\* race on the unique hash, is COMPLETED.
C3_RaceLoserCompletes ==
    \A j \in Jobs :
        (Finished(j) /\ outcome[j] = "PendingRollbackError") =>
            status[j] = "COMPLETED"

\* C4: when job k is processed after job i has completed the full pipeline
\* on the same bytes B, job k ends COMPLETED without process_image or
\* extract_data, and the ledger holds exactly one row for sha256(B).
C4_SecondSubmissionSkips ==
    \A i, k \in Jobs :
        ( /\ i # k
          /\ i \in hist[k].seenDone
          /\ image_bytes[k] = hist[i].fullBytes
          /\ outcome[k] # "none" ) =>
            /\ status[k] = "COMPLETED"
            /\ ~hist[k].ranProcess
            /\ ~hist[k].ranExtract
            /\ Cardinality(RowsWith(Sha256(image_bytes[k]))) = 1

C4_Witness ==
    \E i, k \in Jobs :
        /\ i # k
        /\ i \in hist[k].seenDone
        /\ image_bytes[k] = hist[i].fullBytes
        /\ Finished(k)
        /\ status[i] = "COMPLETED"
        /\ status[k] = "COMPLETED"
        /\ Len(ledger) = 1

\* C5: the ledger never holds two rows with one hash, and a row, once
\* there, is never changed or removed.
C5_LedgerUniqueImmutable ==
    /\ [](\A m, n \in 1..Len(ledger) : ledger[m] = ledger[n] => m = n)
    /\ [][ /\ Len(ledger') >= Len(ledger)
           /\ \A n \in 1..Len(ledger) : ledger'[n] = ledger[n] ]_vars

\* Two executions raced on one hash: one inserted the row, the other's
\* insert was rejected.
C5_Witness ==
    \E i, k \in Jobs :
        /\ i # k
        /\ hist[i].addedLedger
        /\ outcome[k] = "PendingRollbackError"
        /\ image_bytes[k] = image_bytes[i]
        /\ Len(ledger) = 1

\* C6: when the download failed in every execution of a message and the
\* task has given up, the task body ran exactly max_retries times, the job
\* is FAILED and its error message names the download failure.
C6_DownloadFailureAttempts ==
    \A j \in Jobs :
        (Finished(j) /\ Raised(j) /\ hist[j].allDlFailed) =>
            /\ hist[j].executions = max_retries
            /\ status[j] = "FAILED"
            /\ error_message[j] = "Error downloading image from S3"

\* C7: an execution that fails deterministically (process_image or
\* extract_data raising on bytes that were downloaded) leaves the job
\* FAILED with the category in the message on the first attempt, and the
\* task is not executed again.
C7_DeterministicNotRetried ==
    \A j \in Jobs :
        ( /\ outcome[j] \in {"ImageProcessingError", "DataExtractionError"}
          /\ image_bytes[j] \in StoredImages ) =>
            /\ status[j] = "FAILED"
            /\ error_message[j] \in {"Error processing image", "Error extracting data"}
            /\ hist[j].executions = 1
            /\ pc[j] = "idle"

\* C8: the executions of a message never exceed the retry ceiling, and a
\* job whose retries are exhausted is FAILED.
C8_BoundedRetriesThenFailed ==
    \A j \in Jobs :
        /\ hist[j].executions <= max_retries + 1
        /\ (Finished(j) /\ Raised(j) /\ hist[j].executions = max_retries + 1) =>
               status[j] = "FAILED"

\* C9: after an execution that ended by raising, whatever the exception,
\* the job is FAILED, not RUNNING.
C9_NoJobLeftRunning ==
    \A j \in Jobs : Raised(j) => status[j] = "FAILED"

\* C10: an execution in which a metadata lookup failed (network or HTTP
\* error) ends with the job FAILED and the error in its message, never
\* COMPLETED.
C10_LookupFailureFailsJob ==
    \A j \in Jobs :
        (hist[j].lookupFailed /\ outcome[j] # "none") =>
            /\ status[j] = "FAILED"
            /\ error_message[j] # ""

\* C27: a job that has a Card row has a ledger row with the digest of its
\* image, and a step that adds Card rows adds that ledger row and sets the
\* job COMPLETED in the same step.
C27_CardsImplyLedger ==
    /\ [](\A j \in Jobs : Len(cards[j]) >= 1 => RowsWith(Sha256(storage[j])) # {})
    /\ [][ \A j \in Jobs :
             cards'[j] # cards[j] =>
                /\ ledger' = Append(ledger, Sha256(storage[j]))
                /\ status'[j] = "COMPLETED" ]_vars

\* A job has committed Card rows with its ledger row, and the commit of
\* another job was rolled back whole, leaving it without Card rows.
C27_Witness ==
    \E j \in Jobs : \E k \in Jobs \ {j} :
        /\ Len(cards[j]) >= 1
        /\ status[j] = "COMPLETED"
        /\ outcome[k] = "PendingRollbackError"
        /\ cards[k] = << >>

\* C28: a job whose current or last execution got b"" from the download is
\* not COMPLETED and that execution has added no ledger row.
C28_FailedDownloadNotCompleted ==
    \A j \in Jobs :
        image_bytes[j] = "empty" =>
            /\ status[j] # "COMPLETED"
            /\ ~hist[j].addedLedger
            /\ RowsWith(Sha256("empty")) = {}

\* An execution whose download failed has run the dedup lookup against a
\* ledger with rows and has ended.
C28_Witness ==
    \E j \in Jobs :
        /\ image_bytes[j] = "empty"
        /\ Finished(j)
        /\ hist[j].ranProcess
        /\ Len(ledger) >= 1

\* C30: when a call has ended with APIFetchError or DataFormatError, the
\* cache file, contents and mtime, is as it was when the call began.
C30_FailedFetchLeavesCache ==
    \A c \in Callers :
        ( /\ FetchDone(c)
          /\ result[c].raised \in {"APIFetchError", "DataFormatError"} ) =>
            cache_file = fh[c].fileBefore

\* A call has found a cache file it could not load, has asked the API and
\* has ended with DataFormatError, some time after the file was written.
C30_Witness ==
    \E c \in Callers :
        /\ FetchDone(c)
        /\ result[c].raised = "DataFormatError"
        /\ gets[c] = 1
        /\ fh[c].tookCache
        /\ cache_file.exists
        /\ cache_file.chunks # << >>

\* C29: a create_job call that has responded with an error has left no row,
\* and every job whose row is PENDING has had its id published.
C29_FailedCreateLeavesNoRow ==
    \A j \in Jobs :
        /\ create_response[j] = "500" => status[j] = "NONE"
        /\ status[j] = "PENDING" => j \in published

\* The indices of the detector's results whose bbox passes the check of
\* segment_cards, in detector order.
ValidDetections(dets) ==
    LET valid(i) == BBoxValid(dets[i].bbox)
    IN  SelectSeq([i \in 1..Len(dets) |-> i], valid)

\* C21: a segment_cards call on a detector result with masks does not raise
\* and returns exactly one entry per detection whose bbox is valid, in
\* detector order, whatever the other detections' bboxes and OCR outcomes.
C21_OneEntryPerValidDetection ==
    (segmentations # NoOutcome /\ results.kind = "masks") =>
        /\ segmentations.raised = "none"
        /\ [k \in 1..Len(segmentations.value) |-> segmentations.value[k].mask]
              = ValidDetections(results.dets)

\* C22: every detection segment_cards has returned has a bbox of integers
\* with 0 <= x1 < x2 <= width and 0 <= y1 < y2 <= height, and the call has
\* not raised whatever the bboxes were.
C22_ReturnedBBoxInBounds ==
    (segmentations # NoOutcome /\ results.kind = "masks") =>
        /\ segmentations.raised = "none"
        /\ \A k \in 1..Len(segmentations.value) :
              LET b == segmentations.value[k].bbox
              IN  /\ \A i \in 1..4 : b[i] % 2 = 0
                  /\ 0 <= b[1] /\ b[1] < b[3] /\ b[3] <= 2 * ImageShape.width
                  /\ 0 <= b[2] /\ b[2] < b[4] /\ b[4] <= 2 * ImageShape.height

\* C23: when model.predict raises, segment_cards and run_inference raise the
\* failure, and process_images on the readable image raises it as an
\* ImageProcessingError that names the image.
C23_DetectorFailureCategorized ==
    results.kind = "raises" =>
        /\ segmentations # NoOutcome => segmentations.raised = "RuntimeError"
        /\ filtered_results # NoOutcome => filtered_results.raised = "RuntimeError"
        /\ ( /\ processed_data_list # NoOutcome
             /\ processed_data_list.raised # "FileNotFoundError"
             /\ processed_data_list.detail # "Could not read image" ) =>
               /\ processed_data_list.raised = "ImageProcessingError"
               /\ processed_data_list.names_image
               /\ processed_data_list.detail = segment_cards(results).detail

\* C24: run_inference returns exactly the detections of the segmenter's list
\* whose confidence is at least the threshold, in the order of that list.
C24_FilterByConfidence ==
    (filtered_results # NoOutcome /\ segment_cards(results).raised = "none") =>
        LET D == segment_cards(results).value
            atLeast(d) == d.confidence # None /\ ~(d.confidence < confidence_threshold)
        IN  /\ filtered_results.raised = "none"
            /\ filtered_results.value = SelectSeq(D, atLeast)

\* run_inference has kept a detection whose confidence is the threshold and
\* has dropped one below it.
C24_Witness ==
    /\ filtered_results # NoOutcome
    /\ \E i \in DOMAIN filtered_results.value :
          filtered_results.value[i].confidence = confidence_threshold
    /\ \E i \in DOMAIN segment_cards(results).value :
          segment_cards(results).value[i].confidence < confidence_threshold

\* The entries of the log of a preprocess call that are calls of step
\* functions, and those that are warnings.
StepCalls == SelectSeq(plog, LAMBDA e : e.event = "call")
StepWarnings == SelectSeq(plog, LAMBDA e : e.event = "warning")

\* The output of the last of the first k calls that returned, the caller's
\* image when none has.
RECURSIVE OutputAfter(_)
OutputAfter(k) ==
    IF k = 0 THEN image
    ELSE IF StepCalls[k].raises THEN OutputAfter(k - 1)
         ELSE StepCalls[k].output

\* C26: when preprocess has returned, the step functions called were the
\* recognised steps of config["steps"] in declaration order, each with the
\* output of the call before it (of the last call that returned, when one
\* raised), the steps not recognised were logged as warnings and not called,
\* the value returned is the output of the last call, and the caller's image
\* is never changed.
C26_StepsInDeclarationOrder ==
    /\ [](returned # NoImage =>
            /\ [k \in 1..Len(StepCalls) |-> StepCalls[k].step]
                 = SelectSeq([i \in 1..Len(steps_to_apply) |-> steps_to_apply[i].name],
                             LAMBDA n : n \in step_functions)
            /\ [k \in 1..Len(StepWarnings) |-> StepWarnings[k].step]
                 = SelectSeq([i \in 1..Len(steps_to_apply) |-> steps_to_apply[i].name],
                             LAMBDA n : n \notin step_functions)
            /\ \A k \in 1..Len(StepCalls) : StepCalls[k].input = OutputAfter(k - 1)
            /\ returned = OutputAfter(Len(StepCalls)))
    /\ [][image' = image]_vars

\* preprocess has returned a grayscale image that was denoised before, with
\* a step between the two that it did not recognise.
C26_Witness ==
    /\ returned # NoImage
    /\ returned.ops = << "denoised", "gray" >>
    /\ Len(StepWarnings) = 1
    /\ Len(steps_to_apply) = 3
    /\ steps_to_apply[2].name = "unknown_fancy_filter"

\* C25: every storage download and every remote metadata GET that is waiting
\* for the remote side returns in the end, with the answer or with an error,
\* also when the remote side never answers.
C25_RemoteCallsReturn ==
    \A site \in Sites :
        (netpc[site] \in {"waiting", "waiting_silent"})
            ~> (netpc[site] \in {"returned", "timed_out"})

====
